---------------------------- MODULE Spec2Model ----------------------------
(***************************************************************************)
(* Model of the voting-escrow helper functions of astroport-governance     *)
(* (contracts/astro-voting-escrow/src/utils.rs) and of the ledger that     *)
(* uses them.                                                              *)
(*                                                                         *)
(* Uint128, Uint256, u64 values that can be large and Decimal atomics are  *)
(* unbounded naturals written as little-endian sequences of base-1000      *)
(* limbs without trailing zero limbs (TLC's own integers are 32 bits       *)
(* wide); the program constants 10^18, 5*10^17, 2^64-1 and 2^128-1 keep    *)
(* their real values.  A Decimal is the natural number of its atomics      *)
(* (value * 10^18).                                                        *)
(***************************************************************************)
EXTENDS Integers, Sequences, FiniteSets, TLC

VARIABLES
    call,               \* the last entry point or helper executed: name, inputs, result
    blockTime,          \* env.block.time.seconds()
    BLACKLIST,          \* state::BLACKLIST
    LOCKED,             \* state::LOCKED: address -> Lock
    HISTORY,            \* state::HISTORY: <<address, U64Key bytes>> -> Point
    SLOPE_CHANGES,      \* state::SLOPE_CHANGES: U64Key bytes -> Decimal
    LAST_SLOPE_CHANGE   \* state::LAST_SLOPE_CHANGE

vars == <<call, blockTime, BLACKLIST, LOCKED, HISTORY, SLOPE_CHANGES, LAST_SLOPE_CHANGE>>

storeVars == <<blockTime, BLACKLIST, LOCKED, HISTORY, SLOPE_CHANGES, LAST_SLOPE_CHANGE>>

(***************************************************************************)
(* Bounds of the model.                                                    *)
(***************************************************************************)
\* small amounts, and the distance explored around each edge value
MaxSmall == 2

(***************************************************************************)
(* Unbounded naturals.                                                     *)
(***************************************************************************)
LimbBase == 10 ^ 3

RECURSIVE Norm(_)
Norm(s) ==
    IF Len(s) = 0 THEN s
    ELSE IF s[Len(s)] = 0 THEN Norm(SubSeq(s, 1, Len(s) - 1)) ELSE s

RECURSIVE FromNat(_)
FromNat(n) ==
    IF n = 0 THEN <<>> ELSE <<n % LimbBase>> \o FromNat(n \div LimbBase)

RECURSIVE ToNat(_)
ToNat(s) ==
    IF Len(s) = 0 THEN 0 ELSE s[1] + LimbBase * ToNat(Tail(s))

Limb(s, i) == IF i <= Len(s) THEN s[i] ELSE 0

RECURSIVE AddFrom(_, _, _, _)
AddFrom(a, b, i, carry) ==
    IF i > Len(a) /\ i > Len(b)
    THEN (IF carry = 0 THEN <<>> ELSE <<carry>>)
    ELSE LET t == Limb(a, i) + Limb(b, i) + carry
         IN  <<t % LimbBase>> \o AddFrom(a, b, i + 1, t \div LimbBase)

BigAdd(a, b) == AddFrom(a, b, 1, 0)

RECURSIVE SubFrom(_, _, _, _)
SubFrom(a, b, i, borrow) ==
    IF i > Len(a) THEN <<>>
    ELSE LET t == Limb(a, i) - Limb(b, i) - borrow
         IN  IF t < 0
             THEN <<t + LimbBase>> \o SubFrom(a, b, i + 1, 1)
             ELSE <<t>> \o SubFrom(a, b, i + 1, 0)

\* a - b for a >= b
BigSub(a, b) == Norm(SubFrom(a, b, 1, 0))

RECURSIVE CmpFrom(_, _, _)
CmpFrom(a, b, i) ==
    IF i = 0 THEN 0
    ELSE IF a[i] < b[i] THEN -1
    ELSE IF a[i] > b[i] THEN 1
    ELSE CmpFrom(a, b, i - 1)

\* -1, 0 or 1 as a < b, a = b or a > b
BigCmp(a, b) ==
    IF Len(a) < Len(b) THEN -1
    ELSE IF Len(a) > Len(b) THEN 1
    ELSE CmpFrom(a, b, Len(a))

BigLeq(a, b) == BigCmp(a, b) <= 0

BigLt(a, b) == BigCmp(a, b) < 0

RECURSIVE MulSmallFrom(_, _, _, _)
MulSmallFrom(a, m, i, carry) ==
    IF i > Len(a) THEN FromNat(carry)
    ELSE LET t == a[i] * m + carry
         IN  <<t % LimbBase>> \o MulSmallFrom(a, m, i + 1, t \div LimbBase)

\* a * m for a machine-size m (m <= 2000000)
BigMulSmall(a, m) == IF m = 0 THEN <<>> ELSE MulSmallFrom(a, m, 1, 0)

RECURSIVE BigMul(_, _)
BigMul(a, b) ==
    IF Len(a) = 0 \/ Len(b) = 0 THEN <<>>
    ELSE LET rest == BigMul(Tail(a), b)
         IN  BigAdd(BigMulSmall(b, a[1]),
                    IF Len(rest) = 0 THEN <<>> ELSE <<0>> \o rest)

RECURSIVE DivSmallFrom(_, _, _, _)
DivSmallFrom(a, d, i, rem) ==
    IF i = 0 THEN [q |-> <<>>, r |-> rem]
    ELSE LET cur  == rem * LimbBase + a[i]
             rest == DivSmallFrom(a, d, i - 1, cur % d)
         IN  [q |-> rest.q \o <<cur \div d>>, r |-> rest.r]

\* floor(a / d) for a machine-size d (0 < d <= 2000000)
BigDivSmall(a, d) == Norm(DivSmallFrom(a, d, Len(a), 0).q)

(***************************************************************************)
(* cosmwasm_std numbers.                                                   *)
(***************************************************************************)
\* Uint128::MAX = 2^128 - 1
UINT128_MAX == <<455, 211, 768, 431, 607, 374, 463, 463, 938, 920, 366, 282, 340>>

\* u64::MAX = 2^64 - 1
U64_MAX == <<615, 551, 709, 73, 744, 446, 18>>

\* Decimal::DECIMAL_FRACTIONAL = 10^18, the denominator of every Decimal
DECIMAL_FRACTIONAL == <<0, 0, 0, 0, 0, 0, 1>>

\* the number of base-1000 limbs below 10^18
FractionalLimbs == Len(DECIMAL_FRACTIONAL) - 1

\* 500000000000000000_u128: 0.5 in Decimal
HALF == <<0, 0, 0, 0, 0, 500>>

\* Uint256 / Uint256::from(self.denominator())
DivFractional(x) ==
    IF Len(x) <= FractionalLimbs THEN <<>>
    ELSE SubSeq(x, FractionalLimbs + 1, Len(x))

\* Uint256::checked_rem(Uint256::from(self.denominator()))
RemFractional(x) ==
    Norm(SubSeq(x, 1, IF Len(x) < FractionalLimbs THEN Len(x) ELSE FractionalLimbs))

Ok(v) == [tag |-> "Ok", val |-> v]

Err(e) == [tag |-> "Err", val |-> e]

\* a Rust panic: the call aborts
Panic == [tag |-> "Panic", val |-> "abort"]

\* Decimal::one()
DecimalOne == DECIMAL_FRACTIONAL

\* Decimal::from_ratio(n, d) for a machine-size d > 0: floor(n * 10^18 / d)
from_ratio(n, d) == BigDivSmall(BigMul(n, DECIMAL_FRACTIONAL), d)

(***************************************************************************)
(* contract.rs constants and utils.rs helpers.                             *)
(***************************************************************************)
\* contract::WEEK, seconds in a week
WEEK == 7 * 86400

\* contract::MAX_LOCK_TIME, two years in seconds
MAX_LOCK_TIME == 2 * 365 * 86400

time_limits_check_exclusive(time) ==
    IF ~(WEEK <= time /\ time < MAX_LOCK_TIME)
    THEN Err(<<"LockTimeLimitsError">>)
    ELSE Ok("unit")

time_limits_check(time) ==
    IF ~(WEEK <= time /\ time <= MAX_LOCK_TIME)
    THEN Err(<<"LockTimeLimitsError">>)
    ELSE Ok("unit")

get_period(time) == time \div WEEK

checked_mul_truncating(self, other) ==
    IF Len(self) = 0 \/ Len(other) = 0 THEN Ok(<<>>)
    ELSE LET numerator      == BigMul(other, self)
             multiply_ratio == DivFractional(numerator)
         IN  IF BigCmp(multiply_ratio, UINT128_MAX) > 0
             THEN Err(<<"OverflowError">>)
             ELSE Ok(multiply_ratio)

\* DecimalRoundedCheckedMul::checked_mul: self is a Decimal, other a Uint128
checked_mul(self, other) ==
    IF Len(self) = 0 \/ Len(other) = 0 THEN Ok(<<>>)
    ELSE LET numerator      == BigMul(other, self)
             multiply_ratio == DivFractional(numerator)
         IN  IF BigCmp(multiply_ratio, UINT128_MAX) > 0
             THEN Err(<<"OverflowError">>)
             ELSE LET rem == RemFractional(numerator)
                  IN  IF BigCmp(rem, HALF) >= 0
                      THEN \* result += Uint128::from(1_u128): Uint128's
                           \* addition panics when it leaves the range
                           IF multiply_ratio = UINT128_MAX
                           THEN Panic
                           ELSE Ok(BigAdd(multiply_ratio, <<1>>))
                      ELSE Ok(multiply_ratio)

\* calc_voting_power: point.start and period are u64 values
calc_voting_power(point, period) ==
    IF BigLt(period, point.start)
    THEN Panic   \* period - point.start leaves the u64 range
    ELSE LET m == checked_mul(point.slope, BigSub(period, point.start))
         IN  IF m.tag = "Panic" THEN Panic
             ELSE LET shift == IF m.tag = "Ok" THEN m.val ELSE <<>>
                  IN  Ok(IF BigLeq(shift, point.power)
                         THEN BigSub(point.power, shift)
                         ELSE <<>>)

calc_coefficient_no_base(interval) ==
    from_ratio(FromNat(15 * interval), get_period(MAX_LOCK_TIME) * 10)

calc_coefficient(interval) ==
    BigAdd(DecimalOne,
           from_ratio(FromNat(15 * interval), get_period(MAX_LOCK_TIME) * 10))


(***************************************************************************)
(* Storage: an ordered key-value store whose raw keys are byte strings,    *)
(* scanned in lexicographic byte order.                                    *)
(***************************************************************************)
EmptyMap == [k \in {} |-> 0]

MapPut(f, k, v) == [x \in DOMAIN f \cup {k} |-> IF x = k THEN v ELSE f[x]]

RECURSIVE LexLt(_, _)
\* a < b in lexicographic byte order
LexLt(a, b) ==
    IF Len(b) = 0 THEN FALSE
    ELSE IF Len(a) = 0 THEN TRUE
    ELSE IF a[1] < b[1] THEN TRUE
    ELSE IF a[1] > b[1] THEN FALSE
    ELSE LexLt(Tail(a), Tail(b))

LexLeq(a, b) == a = b \/ LexLt(a, b)

RECURSIVE SortKeys(_)
\* Order::Ascending: the keys of S in ascending byte order
SortKeys(S) ==
    IF S = {} THEN <<>>
    ELSE LET m == CHOOSE x \in S : \A y \in S : LexLeq(x, y)
         IN  <<m>> \o SortKeys(S \ {m})

RECURSIVE LeBytes(_, _)
\* the n low bytes of k, lowest first
LeBytes(k, n) ==
    IF n = 0 THEN <<>> ELSE <<k % 256>> \o LeBytes(k \div 256, n - 1)

RECURSIVE BeBytes(_, _)
\* the n low bytes of k, highest first
BeBytes(k, n) ==
    IF n = 0 THEN <<>> ELSE BeBytes(k \div 256, n - 1) \o <<k % 256>>

U64Key_little_endian(k) == LeBytes(k, 8)

\* U64Key::new(k).wrapped: the 8 bytes of k, big-endian
U64Key(k) == BeBytes(k, 8)

RECURSIVE from_be_bytes(_)
\* u64::from_be_bytes, as an unbounded natural
from_be_bytes(bytes) ==
    IF Len(bytes) = 0 THEN <<>>
    ELSE BigAdd(BigMulSmall(from_be_bytes(SubSeq(bytes, 1, Len(bytes) - 1)), 256),
                FromNat(bytes[Len(bytes)]))

None == [tag |-> "None", val |-> "none"]

Some(v) == [tag |-> "Some", val |-> v]

blacklist_check_inverted(blacklist, addr) ==
    IF addr \notin blacklist
    THEN Err(<<"AddressBlacklisted", addr>>)
    ELSE Ok("unit")

\* blacklist_check, with the loaded BLACKLIST as a parameter
blacklist_check(blacklist, addr) ==
    IF addr \in blacklist
    THEN Err(<<"AddressBlacklisted", addr>>)
    ELSE Ok("unit")

fetch_last_checkpoint_first(history, addr, period_key) ==
    LET keys == {e[2] : e \in {x \in DOMAIN history :
                                   x[1] = addr /\ LexLeq(x[2], period_key)}}
    IN  IF keys = {} THEN None
        ELSE LET sorted == SortKeys(keys)
             IN  Some(<<sorted[1], history[<<addr, sorted[1]>>]>>)

\* fetch_last_checkpoint: the last entry of the ascending scan of addr's
\* prefix up to period_key, inclusive
fetch_last_checkpoint(history, addr, period_key) ==
    LET keys == {e[2] : e \in {x \in DOMAIN history :
                                   x[1] = addr /\ LexLeq(x[2], period_key)}}
    IN  IF keys = {} THEN None
        ELSE LET sorted == SortKeys(keys)
                 last   == sorted[Len(sorted)]
             IN  Some(<<last, history[<<addr, last>>]>>)

\* deserialize_pair: the raw key must be 8 bytes
deserialize_pair(pair) ==
    IF Len(pair[1]) # 8
    THEN Err(<<"Deserialization error">>)
    ELSE Ok(<<from_be_bytes(pair[1]), pair[2]>>)

fetch_slope_changes_inclusive(slope_changes, last_slope_change, period) ==
    LET keys   == {k \in DOMAIN slope_changes :
                      /\ LexLeq(U64Key(last_slope_change), k)
                      /\ LexLeq(k, U64Key(period))}
        sorted == SortKeys(keys)
        pairs  == [i \in 1 .. Len(sorted) |->
                      deserialize_pair(<<sorted[i], slope_changes[sorted[i]]>>)]
    IN  IF \E i \in 1 .. Len(pairs) : pairs[i].tag = "Err"
        THEN Err(<<"Deserialization error">>)
        ELSE Ok([i \in 1 .. Len(pairs) |-> pairs[i].val])

\* fetch_slope_changes: the ascending scan of (last_slope_change, period]
fetch_slope_changes(slope_changes, last_slope_change, period) ==
    LET keys   == {k \in DOMAIN slope_changes :
                      /\ LexLt(U64Key(last_slope_change), k)
                      /\ LexLeq(k, U64Key(period))}
        sorted == SortKeys(keys)
        pairs  == [i \in 1 .. Len(sorted) |->
                      deserialize_pair(<<sorted[i], slope_changes[sorted[i]]>>)]
    IN  IF \E i \in 1 .. Len(pairs) : pairs[i].tag = "Err"
        THEN Err(<<"Deserialization error">>)
        ELSE Ok([i \in 1 .. Len(pairs) |-> pairs[i].val])

(***************************************************************************)
(* The helpers as operations: each is applied to inputs drawn from sets    *)
(* that hold the small values and the edges of the number ranges.          *)
(***************************************************************************)
NoCall == [fn |-> "none", in |-> <<>>, out |-> Ok("unit")]

\* nothing stored, nothing called yet
StoreEmpty ==
    /\ blockTime = 0
    /\ BLACKLIST = {}
    /\ LOCKED = EmptyMap
    /\ HISTORY = EmptyMap
    /\ SLOPE_CHANGES = EmptyMap
    /\ LAST_SLOPE_CHANGE = 0

\* get_period(MAX_LOCK_TIME): the longest lock in periods
MaxLockPeriods == get_period(MAX_LOCK_TIME)

\* the amount a with 1.75 * a = Uint128::MAX + 0.5, which is (4 * MAX + 2) / 7
RoundUpEdge == BigDivSmall(BigAdd(BigMulSmall(UINT128_MAX, 4), <<2>>), 7)

\* 2 * 10^18, a u64 period distance
HugeDistance == <<0, 0, 0, 0, 0, 0, 2>>

SmallNats == 0 .. MaxSmall

DecimalInputs ==
    {calc_coefficient(i) : i \in SmallNats \cup {MaxLockPeriods \div 2, MaxLockPeriods}}
    \cup {<<>>, <<1>>, HALF, BigSub(HALF, <<1>>), BigSub(DecimalOne, <<1>>), UINT128_MAX}
    \cup {from_ratio(FromNat(k), 3) : k \in SmallNats}

AmountInputs ==
    {FromNat(k) : k \in SmallNats} \cup {FromNat(1000)}
    \cup {BigSub(UINT128_MAX, FromNat(k)) : k \in SmallNats}
    \cup {BigSub(RoundUpEdge, FromNat(k)) : k \in SmallNats}
    \cup {BigAdd(RoundUpEdge, FromNat(k)) : k \in SmallNats}

PowerInputs ==
    {FromNat(k) : k \in SmallNats}
    \cup {FromNat(10), FromNat(2500), BigMulSmall(DECIMAL_FRACTIONAL, 300)}

LockPeriodInputs == (1 .. MaxSmall + 1) \cup {MaxLockPeriods}

\* a period of the present day (2814 weeks after the Unix epoch) and period 0
StartPeriodInputs == {0, get_period(1701907200)}

\* Points as the ledger builds them: slope = power / (end - start)
LedgerPoints ==
    {[power |-> p, slope |-> from_ratio(p, dt),
      start |-> FromNat(s), end |-> FromNat(s + dt)] :
        p \in PowerInputs, dt \in LockPeriodInputs, s \in StartPeriodInputs}

\* Points whose slope is unrelated to their power
FreePoints ==
    {[power |-> p, slope |-> c, start |-> FromNat(s), end |-> FromNat(s + 1)] :
        p \in PowerInputs,
        c \in {HALF, calc_coefficient(MaxLockPeriods \div 2), UINT128_MAX},
        s \in StartPeriodInputs}

PointInputs == LedgerPoints \cup FreePoints

PeriodInputs ==
    {FromNat(s + k) : s \in StartPeriodInputs,
                      k \in (0 .. MaxSmall + 2) \cup {MaxLockPeriods, MaxLockPeriods + 1}}
    \cup {HugeDistance, U64_MAX}

DurationInputs ==
    {t \in {k * WEEK + d : k \in {0, 1, 2, MaxLockPeriods}, d \in -MaxSmall .. MaxSmall}
           \cup {MAX_LOCK_TIME + d : d \in -MaxSmall .. MaxSmall} : t >= 0}

\* a call whose inputs are chosen and whose result is not computed yet
Pending == [tag |-> "Pending", val |-> "none"]

Done == call.out.tag # "Pending"

ArithCalls ==
    {[fn |-> "checked_mul", in |-> <<c, a>>, out |-> Pending] :
        c \in DecimalInputs, a \in AmountInputs}
    \cup {[fn |-> "calc_voting_power", in |-> <<point, period>>, out |-> Pending] :
        point \in PointInputs, period \in PeriodInputs}
    \cup {[fn |-> "calc_coefficient", in |-> <<i, j>>, out |-> Pending] :
        i \in 0 .. MaxLockPeriods, j \in 0 .. MaxLockPeriods}
    \cup {[fn |-> "time_limits_check", in |-> <<time>>, out |-> Pending] :
        time \in DurationInputs}

CheckedMul ==
    /\ call.fn = "checked_mul" /\ ~Done
    /\ call' = [call EXCEPT !.out = checked_mul(call.in[1], call.in[2])]
    /\ UNCHANGED storeVars

CalcVotingPower ==
    /\ call.fn = "calc_voting_power" /\ ~Done
    /\ call' = [call EXCEPT !.out = calc_voting_power(call.in[1], call.in[2])]
    /\ UNCHANGED storeVars

CalcCoefficient ==
    /\ call.fn = "calc_coefficient" /\ ~Done
    /\ call' = [call EXCEPT !.out =
                   Ok(<<calc_coefficient(call.in[1]), calc_coefficient(call.in[2])>>)]
    /\ UNCHANGED storeVars

TimeLimitsCheck ==
    /\ call.fn = "time_limits_check" /\ ~Done
    /\ call' = [call EXCEPT !.out = time_limits_check(call.in[1])]
    /\ UNCHANGED storeVars

InitArith == call \in ArithCalls /\ StoreEmpty

NextArith == CheckedMul \/ CalcVotingPower \/ CalcCoefficient \/ TimeLimitsCheck

SpecArith == InitArith /\ [][NextArith]_vars

(***************************************************************************)
(* Properties of the arithmetic helpers.                                   *)
(***************************************************************************)
\* round_half_up(c * a) without a range limit: floor((c * a + 0.5 * 10^18) / 10^18)
RoundHalfUp(c, a) == DivFractional(BigAdd(BigMul(c, a), HALF))

\* max(0, a - b)
Monus(a, b) == IF BigLeq(b, a) THEN BigSub(a, b) ELSE <<>>

\* C1: whenever round_half_up(c * a) fits in 128 bits, checked_mul(c, a)
\* returns exactly that value, and it returns 0 when c or a is 0.
C1_RoundedMultiplyExact ==
    (call.fn = "checked_mul" /\ Done) =>
        LET c == call.in[1]
            a == call.in[2]
            r == RoundHalfUp(c, a)
        IN  /\ BigLeq(r, UINT128_MAX) => (call.out.tag = "Ok" /\ call.out.val = r)
            /\ (c = <<>> \/ a = <<>>) => (call.out.tag = "Ok" /\ call.out.val = <<>>)

\* C1 witness: a product whose remainder is exactly one half was rounded up
C1_Witness ==
    /\ call.fn = "checked_mul" /\ Done
    /\ RemFractional(BigMul(call.in[1], call.in[2])) = HALF
    /\ call.out.tag = "Ok"
    /\ call.out.val = BigAdd(DivFractional(BigMul(call.in[1], call.in[2])), <<1>>)

\* C8: whenever round_half_up(c * a) exceeds the 128-bit range, checked_mul
\* returns the overflow error (it neither aborts nor returns a value).
C8_OverflowIsAnError ==
    (call.fn = "checked_mul" /\ Done /\ BigLt(UINT128_MAX, RoundHalfUp(call.in[1], call.in[2])))
        => (call.out.tag = "Err" /\ call.out.val = <<"OverflowError">>)

\* C2: for period >= point.start, calc_voting_power(point, period) is
\* max(0, power - round_half_up(slope * (period - start))), also when that
\* product leaves the 128-bit range (the result is then 0).
C2_VotingPowerFormula ==
    (call.fn = "calc_voting_power" /\ Done /\ BigLeq(call.in[1].start, call.in[2])) =>
        LET point == call.in[1]
            shift == RoundHalfUp(point.slope, BigSub(call.in[2], point.start))
        IN  call.out.tag = "Ok" /\ call.out.val = Monus(point.power, shift)

\* the Point invariant: end > start and slope = power / (end - start)
PointInvariant(point) ==
    /\ BigLt(point.start, point.end)
    /\ BigLeq(BigSub(point.end, point.start), FromNat(MaxLockPeriods))
    /\ point.slope = from_ratio(point.power, ToNat(BigSub(point.end, point.start)))

\* C3: a Point that satisfies the Point invariant has voting power exactly 0
\* at every period p >= point.end.
C3_ZeroFromEnd ==
    (/\ call.fn = "calc_voting_power" /\ Done
     /\ PointInvariant(call.in[1])
     /\ BigLeq(call.in[1].end, call.in[2]))
        => (call.out.tag = "Ok" /\ call.out.val = <<>>)

\* 2.5 as a Decimal
TwoAndHalf == from_ratio(FromNat(25), 10)

\* C7: calc_coefficient(0) = 1.0, calc_coefficient(max_lock_periods) = 2.5,
\* the coefficient is strictly increasing on [0, max_lock_periods], and so
\* it stays in [1.0, 2.5].
C7_CoefficientRange ==
    (call.fn = "calc_coefficient" /\ Done) =>
        LET i  == call.in[1]
            j  == call.in[2]
            ci == call.out.val[1]
            cj == call.out.val[2]
        IN  /\ i = 0 => ci = DecimalOne
            /\ i = MaxLockPeriods => ci = TwoAndHalf
            /\ i < j => BigLt(ci, cj)
            /\ BigLeq(DecimalOne, ci) /\ BigLeq(ci, TwoAndHalf)

\* C7 witness: the two ends of the range were computed, 1.0 and 2.5
C7_Witness ==
    /\ call.fn = "calc_coefficient" /\ Done
    /\ call.in = <<0, MaxLockPeriods>>
    /\ call.out.val = <<DecimalOne, TwoAndHalf>>

\* C9: time_limits_check(duration) succeeds exactly when
\* WEEK <= duration <= MAX_LOCK_TIME, and fails with LockTimeLimitsError
\* otherwise.
C9_TimeLimits ==
    (call.fn = "time_limits_check" /\ Done) =>
        LET time == call.in[1]
        IN  /\ (call.out.tag = "Ok") <=> (WEEK <= time /\ time <= MAX_LOCK_TIME)
            /\ call.out.tag # "Ok" =>
                   (call.out.tag = "Err" /\ call.out.val = <<"LockTimeLimitsError">>)

\* C9 witness: a duration of exactly the maximum was accepted
C9_Witness ==
    /\ call.fn = "time_limits_check" /\ Done
    /\ call.in[1] = MAX_LOCK_TIME
    /\ call.out.tag = "Ok"

(***************************************************************************)
(* The two stores under arbitrary writes.                                  *)
(***************************************************************************)
\* how many entries the two stores hold together
MaxEntries == 3

\* env.contract.address: the aggregate checkpoints are stored under it
Contract == "contract"

Users == {"user1", "user2"}

\* periods on both sides of a byte boundary of the key (255 | 256)
StorePeriods == 254 .. 257

\* periods a query may name
QueryPeriods == 253 .. 258

StorePoints ==
    {[power |-> FromNat(10 * dt), slope |-> from_ratio(FromNat(10 * dt), dt),
      start |-> FromNat(254), end |-> FromNat(254 + dt)] : dt \in 1 .. 2}

StoreSlopes == {HALF, DecimalOne}

Entries == Cardinality(DOMAIN HISTORY) + Cardinality(DOMAIN SLOPE_CHANGES)

\* HISTORY.save(storage, (addr, U64Key::new(period)), &point)
HistorySave ==
    /\ \E addr \in Users, period \in StorePeriods, point \in StorePoints :
          /\ HISTORY' = MapPut(HISTORY, <<addr, U64Key(period)>>, point)
          /\ call' = [fn |-> "HISTORY.save", in |-> <<>>, out |-> Ok("unit")]
    /\ Cardinality(DOMAIN HISTORY') + Cardinality(DOMAIN SLOPE_CHANGES) <= MaxEntries
    /\ UNCHANGED <<blockTime, BLACKLIST, LOCKED, SLOPE_CHANGES, LAST_SLOPE_CHANGE>>

\* SLOPE_CHANGES.save(storage, U64Key::new(period), &slope)
SlopeChangesSave ==
    /\ \E period \in StorePeriods, slope \in StoreSlopes :
          /\ SLOPE_CHANGES' = MapPut(SLOPE_CHANGES, U64Key(period), slope)
          /\ call' = [fn |-> "SLOPE_CHANGES.save", in |-> <<>>, out |-> Ok("unit")]
    /\ Cardinality(DOMAIN HISTORY) + Cardinality(DOMAIN SLOPE_CHANGES') <= MaxEntries
    /\ UNCHANGED <<blockTime, BLACKLIST, LOCKED, HISTORY, LAST_SLOPE_CHANGE>>

InitStore == call = NoCall /\ StoreEmpty

NextStore == HistorySave \/ SlopeChangesSave

SpecStore == InitStore /\ [][NextStore]_vars

\* the periods under which addr has a stored checkpoint
StoredPeriods(addr) ==
    {k \in StorePeriods : <<addr, U64Key(k)>> \in DOMAIN HISTORY}

\* the greatest element of a non-empty set of numbers
MaxOf(S) == CHOOSE m \in S : \A x \in S : x <= m

\* C5: fetch_last_checkpoint(account, p) is none when the account has no
\* checkpoint at a period <= p, and otherwise the account's own entry with
\* the greatest period <= p.
C5_LastCheckpoint ==
    \A addr \in Users \cup {Contract}, p \in QueryPeriods :
        LET found == fetch_last_checkpoint(HISTORY, addr, U64Key(p))
            older == {k \in StoredPeriods(addr) : k <= p}
        IN  IF older = {}
            THEN found.tag = "None"
            ELSE /\ found.tag = "Some"
                 /\ from_be_bytes(found.val[1]) = FromNat(MaxOf(older))
                 /\ found.val[2] = HISTORY[<<addr, U64Key(MaxOf(older))>>]

\* C5 witness: an account has checkpoints on both sides of the byte boundary
\* and a later one, another account has one in between, and the lookup at the
\* boundary period finds the account's own entry below the boundary
C5_Witness ==
    /\ <<"user1", U64Key(255)>> \in DOMAIN HISTORY
    /\ <<"user1", U64Key(257)>> \in DOMAIN HISTORY
    /\ <<"user2", U64Key(256)>> \in DOMAIN HISTORY
    /\ fetch_last_checkpoint(HISTORY, "user1", U64Key(256)).tag = "Some"
    /\ fetch_last_checkpoint(HISTORY, "user1", U64Key(256)).val[1] = U64Key(255)
    /\ fetch_last_checkpoint(HISTORY, "user1", U64Key(254)).tag = "None"

\* the periods that have a scheduled slope change
ScheduledPeriods == {k \in StorePeriods : U64Key(k) \in DOMAIN SLOPE_CHANGES}

\* C6: fetch_slope_changes(last, period) returns exactly the entries with
\* last < k <= period, each once, in strictly ascending order of k.
C6_SlopeChangesRange ==
    \A last \in QueryPeriods, period \in QueryPeriods :
        LET got == fetch_slope_changes(SLOPE_CHANGES, last, period)
        IN  /\ got.tag = "Ok"
            /\ \A i \in 1 .. Len(got.val) - 1 :
                  BigLt(got.val[i][1], got.val[i + 1][1])
            /\ {got.val[i] : i \in 1 .. Len(got.val)} =
                   {<<FromNat(k), SLOPE_CHANGES[U64Key(k)]>> :
                       k \in {x \in ScheduledPeriods : last < x /\ x <= period}}

\* C6 witness: entries at the lower bound, across the byte boundary and at
\* the upper bound; the scan drops the first and returns the other two in order
C6_Witness ==
    /\ {254, 255, 256} \subseteq ScheduledPeriods
    /\ fetch_slope_changes(SLOPE_CHANGES, 254, 256).tag = "Ok"
    /\ fetch_slope_changes(SLOPE_CHANGES, 254, 256).val =
           <<<<FromNat(255), SLOPE_CHANGES[U64Key(255)]>>,
             <<FromNat(256), SLOPE_CHANGES[U64Key(256)]>>>>

(***************************************************************************)
(* The ledger: lock creation, deposit, extension and withdrawal, the       *)
(* per-account and the aggregate checkpoints, and the two queries.         *)
(***************************************************************************)
\* how many periods the clock advances
MaxTicks == 1

\* config.deposit_token_addr
XAstro == "xastro"

Senders == {XAstro, "other_token"}

\* the block time at the start: period 2815, the last one before a byte
\* boundary of the period key (2816 = 11 * 256)
StartTime == 2815 * WEEK

\* how many times the deposit amount a lock may hold
MaxDeposits == 2

\* how many periods a lock may still run when it is created or extended
MaxLockWeeks == 2

\* the amount of a deposit
DepositAmount == FromNat(7)

LockAmounts == {DepositAmount}

\* a duration below the minimum, the minimum, and two weeks
LockTimes == {WEEK - 1, WEEK, 2 * WEEK}

\* Option<u64>::None for a lock end
NoEnd == 0 - 1

\* xastro_token_check, with config.deposit_token_addr as a parameter
xastro_token_check(deposit_token_addr, sender) ==
    IF sender # deposit_token_addr THEN Err(<<"Unauthorized">>) ELSE Ok("unit")

\* Uint128 * Decimal: floor(amount * decimal)
MulDecimal(amount, decimal) == DivFractional(BigMul(amount, decimal))

\* a let binding: body applied to the value, which is computed once
With(value, body(_)) == CHOOSE result \in {body(x) : x \in {value}} : TRUE

\* the stored state an entry point works on; ok is false once it has panicked
Storage ==
    [h |-> HISTORY, s |-> SLOPE_CHANGES, l |-> LAST_SLOPE_CHANGE, k |-> LOCKED, ok |-> TRUE]

\* record_expiry: merge the slope into the schedule entry of the period
schedule_slope_change(st, slope, period) ==
    IF slope = <<>> THEN st
    ELSE LET key == U64Key(period)
         IN  [st EXCEPT !.s = MapPut(@, key,
                 IF key \in DOMAIN st.s THEN BigAdd(st.s[key], slope) ELSE slope)]

\* take a slope back out of a schedule entry that is still in the future
cancel_scheduled_slope(st, slope, period) ==
    LET key == U64Key(period)
    IN  IF key \in DOMAIN st.s /\ period > st.l
        THEN IF BigLt(st.s[key], slope)
             THEN [st EXCEPT !.ok = FALSE]
             ELSE [st EXCEPT !.s = MapPut(@, key, BigSub(st.s[key], slope))]
        ELSE st

RECURSIVE recalc_passed_points(_, _, _)
\* replay the scheduled changes on the aggregate point, saving each step
recalc_passed_points(acc, changes, i) ==
    IF i > Len(changes) \/ ~acc.st.ok THEN acc
    ELSE LET recalc_period    == changes[i][1]
             scheduled_change == changes[i][2]
             point            == acc.point
         IN  IF BigLt(point.slope, scheduled_change)
             THEN [acc EXCEPT !.st.ok = FALSE]
             ELSE With([power |-> calc_voting_power(point, recalc_period).val,
                        slope |-> BigSub(point.slope, scheduled_change),
                        start |-> recalc_period,
                        end   |-> point.end],
                       LAMBDA new_point :
                           With([st |-> [acc.st EXCEPT !.h =
                                            MapPut(@, <<Contract,
                                                        U64Key(ToNat(recalc_period))>>,
                                                   new_point)],
                                 point |-> new_point],
                                LAMBDA next : recalc_passed_points(next, changes, i + 1)))

\* the aggregate checkpoint of the current period
checkpoint_total(st, cur_period, add_voting_power, reduce_power, old_slope, new_slope) ==
    With(fetch_last_checkpoint(st.h, Contract, U64Key(cur_period)),
         LAMBDA last_checkpoint :
    IF last_checkpoint.tag = "Some"
    THEN With(IF st.l < cur_period
              THEN recalc_passed_points(
                       [st |-> [st EXCEPT !.l = cur_period],
                        point |-> last_checkpoint.val[2]],
                       fetch_slope_changes(st.s, st.l, cur_period).val, 1)
              ELSE [st |-> st, point |-> last_checkpoint.val[2]],
              LAMBDA replayed :
         IF ~replayed.st.ok \/ BigLt(replayed.point.slope, old_slope)
         THEN [st EXCEPT !.ok = FALSE]
         ELSE With(BigAdd(calc_voting_power(replayed.point, FromNat(cur_period)).val,
                          add_voting_power),
                   LAMBDA raised :
              LET point     == replayed.point
                  new_power == IF BigLeq(reduce_power, raised)
                               THEN BigSub(raised, reduce_power)
                               ELSE <<>>
                  new_point ==
                      [power |-> new_power,
                       slope |-> BigAdd(BigSub(point.slope, old_slope), new_slope),
                       start |-> FromNat(cur_period),
                       end   |-> point.end]
              IN  [replayed.st EXCEPT !.h =
                      MapPut(@, <<Contract, U64Key(cur_period)>>, new_point)]))
    ELSE [st EXCEPT !.h =
             MapPut(@, <<Contract, U64Key(cur_period)>>,
                    [power |-> add_voting_power, slope |-> new_slope,
                     start |-> FromNat(cur_period), end |-> <<>>])])

\* the account's checkpoint of the current period, then the aggregate one
checkpoint(st, cur_period, addr, add_amount, new_end) ==
    LET finish(st1, new_point, add_voting_power, old_slope) ==
            With([schedule_slope_change(st1, new_point.slope, ToNat(new_point.end))
                     EXCEPT !.h = MapPut(@, <<addr, U64Key(cur_period)>>, new_point)],
                 LAMBDA st2 :
                     checkpoint_total(st2, cur_period, add_voting_power, <<>>,
                                      old_slope, new_point.slope))
    IN  With(fetch_last_checkpoint(st.h, addr, U64Key(cur_period)),
             LAMBDA last_checkpoint :
        IF last_checkpoint.tag = "Some"
        THEN With(calc_voting_power(last_checkpoint.val[2], FromNat(cur_period)).val,
                  LAMBDA current_power :
             LET point     == last_checkpoint.val[2]
                 point_end == ToNat(point.end)
                 end       == IF new_end = NoEnd THEN point_end ELSE new_end
                 dt        == IF end > cur_period THEN end - cur_period ELSE 0
                 extend    == end > point_end /\ add_amount = <<>>
             IN  With(MulDecimal(st.k[addr].amount, calc_coefficient(dt)),
                      LAMBDA new_voting_power :
                 With(IF dt = 0 THEN <<>>
                      ELSE IF extend
                      THEN (IF BigLeq(current_power, new_voting_power)
                            THEN BigSub(new_voting_power, current_power) ELSE <<>>)
                      ELSE MulDecimal(add_amount, calc_coefficient(dt)),
                      LAMBDA add_voting_power :
                 With([power |-> BigAdd(current_power, add_voting_power),
                       slope |-> IF dt = 0 THEN <<>>
                                 ELSE IF extend
                                 THEN from_ratio(new_voting_power, dt)
                                 ELSE from_ratio(BigAdd(current_power, add_voting_power),
                                                 dt),
                       start |-> FromNat(cur_period),
                       end   |-> FromNat(end)],
                      LAMBDA new_point :
                 With(cancel_scheduled_slope(st, point.slope, point_end),
                      LAMBDA st1 :
                          finish(st1, new_point, add_voting_power, point.slope))))))
        ELSE With(MulDecimal(add_amount, calc_coefficient(new_end - cur_period)),
                  LAMBDA add_voting_power :
             With([power |-> add_voting_power,
                   slope |-> from_ratio(add_voting_power, new_end - cur_period),
                   start |-> FromNat(cur_period),
                   end   |-> FromNat(new_end)],
                  LAMBDA new_point :
                      finish(st, new_point, add_voting_power, <<>>))))

\* voting_power_at(account, period)
get_user_voting_power(history, user, period) ==
    LET last_checkpoint == fetch_last_checkpoint(history, user, U64Key(period))
    IN  IF last_checkpoint.tag = "None" THEN Ok(<<>>)
        ELSE calc_voting_power(last_checkpoint.val[2], FromNat(period))

RECURSIVE replay_slope_changes(_, _, _)
\* the aggregate point after the scheduled changes, or a panic
replay_slope_changes(point, changes, i) ==
    IF i > Len(changes) THEN Ok(point)
    ELSE IF BigLt(point.slope, changes[i][2]) THEN Panic
    ELSE replay_slope_changes(
             [power |-> calc_voting_power(point, changes[i][1]).val,
              slope |-> BigSub(point.slope, changes[i][2]),
              start |-> changes[i][1],
              end   |-> point.end],
             changes, i + 1)

\* total_voting_power_at(period): the last aggregate checkpoint, replayed
get_total_voting_power(history, slope_changes, period) ==
    LET last_checkpoint == fetch_last_checkpoint(history, Contract, U64Key(period))
    IN  IF last_checkpoint.tag = "None" THEN Ok(<<>>)
        ELSE LET point == last_checkpoint.val[2]
             IN  IF point.start = FromNat(period) THEN Ok(point.power)
                 ELSE LET replayed ==
                              replay_slope_changes(point,
                                  fetch_slope_changes(slope_changes, ToNat(point.start),
                                                      period).val, 1)
                      IN  IF replayed.tag = "Panic" THEN Panic
                          ELSE calc_voting_power(replayed.val, FromNat(period))

\* the entry point ends: its writes are kept, or it panicked and none is
Commit(st, fn, in) ==
    IF st.ok
    THEN /\ HISTORY' = st.h
         /\ SLOPE_CHANGES' = st.s
         /\ LAST_SLOPE_CHANGE' = st.l
         /\ LOCKED' = st.k
         /\ call' = [fn |-> fn, in |-> in, out |-> Ok("unit")]
    ELSE /\ UNCHANGED <<HISTORY, SLOPE_CHANGES, LAST_SLOPE_CHANGE, LOCKED>>
         /\ call' = [fn |-> fn, in |-> in, out |-> Panic]

\* the entry point returns an error before it wrote anything
Reject(fn, in, error) ==
    /\ UNCHANGED <<HISTORY, SLOPE_CHANGES, LAST_SLOPE_CHANGE, LOCKED>>
    /\ call' = [fn |-> fn, in |-> in, out |-> error]

\* receive_cw20 with Cw20HookMsg::CreateLock { time }
CreateLock ==
    /\ \E sender \in Senders, user \in Users, amount \in LockAmounts, time \in LockTimes :
          LET in           == <<sender, user>>
              block_period == get_period(blockTime)
              end          == block_period + get_period(time)
          IN  IF xastro_token_check(XAstro, sender).tag = "Err"
              THEN Reject("create_lock", in, xastro_token_check(XAstro, sender))
              ELSE IF blacklist_check(BLACKLIST, user).tag = "Err"
              THEN Reject("create_lock", in, blacklist_check(BLACKLIST, user))
              ELSE IF time_limits_check(time).tag = "Err"
              THEN Reject("create_lock", in, time_limits_check(time))
              ELSE IF user \in DOMAIN LOCKED
              THEN Reject("create_lock", in, Err(<<"LockAlreadyExists">>))
              ELSE /\ end <= block_period + MaxLockWeeks
                   /\ \E st \in {checkpoint(
                              [Storage EXCEPT !.k = MapPut(@, user,
                                  [amount |-> amount, start |-> block_period, end |-> end])],
                              block_period, user, amount, end)} :
                          Commit(st, "create_lock", in)
    /\ UNCHANGED <<blockTime, BLACKLIST>>

\* receive_cw20 with Cw20HookMsg::ExtendLockAmount {}
ExtendLockAmount ==
    /\ \E sender \in Senders, user \in Users, amount \in LockAmounts :
          LET in         == <<sender, user>>
              cur_period == get_period(blockTime)
          IN  IF xastro_token_check(XAstro, sender).tag = "Err"
              THEN Reject("extend_lock_amount", in, xastro_token_check(XAstro, sender))
              ELSE IF blacklist_check(BLACKLIST, user).tag = "Err"
              THEN Reject("extend_lock_amount", in, blacklist_check(BLACKLIST, user))
              ELSE IF user \notin DOMAIN LOCKED
              THEN Reject("extend_lock_amount", in, Err(<<"LockDoesntExist">>))
              ELSE IF LOCKED[user].end <= cur_period
              THEN Reject("extend_lock_amount", in, Err(<<"LockExpired">>))
              ELSE /\ BigLeq(BigAdd(LOCKED[user].amount, amount),
                             BigMulSmall(DepositAmount, MaxDeposits))
                   /\ \E st \in {checkpoint(
                              [Storage EXCEPT !.k[user].amount = BigAdd(@, amount)],
                              cur_period, user, amount, NoEnd)} :
                          Commit(st, "extend_lock_amount", in)
    /\ UNCHANGED <<blockTime, BLACKLIST>>

\* ExecuteMsg::ExtendLockTime { time }
ExtendLockTime ==
    /\ \E user \in Users, time \in LockTimes :
          LET in         == <<user, user>>
              cur_period == get_period(blockTime)
          IN  IF blacklist_check(BLACKLIST, user).tag = "Err"
              THEN Reject("extend_lock_time", in, blacklist_check(BLACKLIST, user))
              ELSE IF user \notin DOMAIN LOCKED
              THEN Reject("extend_lock_time", in, Err(<<"LockDoesntExist">>))
              ELSE IF LOCKED[user].end <= cur_period
              THEN Reject("extend_lock_time", in, Err(<<"LockExpired">>))
              ELSE IF time_limits_check(LOCKED[user].end * WEEK + time - blockTime).tag = "Err"
              THEN Reject("extend_lock_time", in,
                          time_limits_check(LOCKED[user].end * WEEK + time - blockTime))
              ELSE /\ LOCKED[user].end + get_period(time) <= cur_period + MaxLockWeeks
                   /\ \E st \in {checkpoint(
                              [Storage EXCEPT !.k[user].end = @ + get_period(time)],
                              cur_period, user, <<>>,
                              LOCKED[user].end + get_period(time))} :
                          Commit(st, "extend_lock_time", in)
    /\ UNCHANGED <<blockTime, BLACKLIST>>

\* ExecuteMsg::Withdraw {}
Withdraw ==
    /\ \E user \in Users :
          LET in         == <<user, user>>
              cur_period == get_period(blockTime)
          IN  IF user \notin DOMAIN LOCKED
              THEN Reject("withdraw", in, Err(<<"LockDoesntExist">>))
              ELSE IF LOCKED[user].end > cur_period
              THEN Reject("withdraw", in, Err(<<"LockNotExpired">>))
              ELSE Commit([Storage EXCEPT
                              !.k = [x \in DOMAIN LOCKED \ {user} |-> LOCKED[x]],
                              !.h = MapPut(@, <<user, U64Key(cur_period)>>,
                                           [power |-> <<>>, slope |-> <<>>,
                                            start |-> FromNat(cur_period),
                                            end   |-> FromNat(cur_period)])],
                          "withdraw", in)
    /\ UNCHANGED <<blockTime, BLACKLIST>>

\* the blacklist is administered from outside the ledger
UpdateBlacklist ==
    /\ \E user \in Users : BLACKLIST' = BLACKLIST \cup {user}
    /\ BLACKLIST' # BLACKLIST
    /\ call' = [fn |-> "update_blacklist", in |-> <<>>, out |-> Ok("unit")]
    /\ UNCHANGED <<blockTime, LOCKED, HISTORY, SLOPE_CHANGES, LAST_SLOPE_CHANGE>>

\* a week passes
Tick ==
    /\ get_period(blockTime) < get_period(StartTime) + MaxTicks
    /\ blockTime' = blockTime + WEEK
    /\ call' = [fn |-> "tick", in |-> <<>>, out |-> Ok("unit")]
    /\ UNCHANGED <<BLACKLIST, LOCKED, HISTORY, SLOPE_CHANGES, LAST_SLOPE_CHANGE>>

Init ==
    /\ call = NoCall
    /\ blockTime = StartTime
    /\ BLACKLIST = {}
    /\ LOCKED = EmptyMap
    /\ HISTORY = EmptyMap
    /\ SLOPE_CHANGES = EmptyMap
    /\ LAST_SLOPE_CHANGE = 0

Next ==
    \/ CreateLock
    \/ ExtendLockAmount
    \/ ExtendLockTime
    \/ Withdraw
    \/ UpdateBlacklist
    \/ Tick

Spec == Init /\ [][Next]_vars

(***************************************************************************)
(* Properties of the ledger.                                               *)
(***************************************************************************)
\* the periods a query is made for: from the start to past every lock's end
LedgerPeriods ==
    get_period(StartTime) .. get_period(StartTime) + MaxTicks + MaxLockWeeks + 1

RECURSIVE SumOfUserPowers(_, _)
\* the sum over the accounts of voting_power_at(account, period)
SumOfUserPowers(accounts, period) ==
    IF accounts = {} THEN <<>>
    ELSE LET user == CHOOSE x \in accounts : TRUE
         IN  BigAdd(get_user_voting_power(HISTORY, user, period).val,
                    SumOfUserPowers(accounts \ {user}, period))

\* C4: after any sequence of lock creations, deposits, extensions and
\* withdrawals, and for every query period from the current one on, the
\* aggregate total replayed from the last aggregate checkpoint through the
\* Slope-Change Schedule equals the sum over the accounts of
\* calc_voting_power applied to the account's last checkpoint.
C4_TotalEqualsSum ==
    \A period \in LedgerPeriods :
        period >= get_period(blockTime)
            => get_total_voting_power(HISTORY, SLOPE_CHANGES, period)
                   = Ok(SumOfUserPowers(Users, period))

\* the result is the error e
IsErr(out, e) == out.tag = "Err" /\ out.val = e

\* the entry points that call blacklist_check
LockOperations == {"create_lock", "extend_lock_amount", "extend_lock_time"}

\* C10: blacklist_check fails with AddressBlacklisted carrying the account
\* if and only if the account is in the blacklist, so a lock operation that
\* got past the token check is rejected with that error exactly when its
\* account is blacklisted, and the rejected operation leaves the Checkpoint
\* Store, the Slope-Change Schedule and the blacklist as they were.
C10_BlacklistRejects ==
    [][ (call'.fn \in LockOperations /\ ~IsErr(call'.out, <<"Unauthorized">>))
            => LET user     == call'.in[2]
                   rejected == IsErr(call'.out, <<"AddressBlacklisted", user>>)
               IN  /\ rejected <=> user \in BLACKLIST
                   /\ rejected <=> blacklist_check(BLACKLIST, user).tag = "Err"
                   /\ rejected => /\ HISTORY' = HISTORY
                                  /\ SLOPE_CHANGES' = SLOPE_CHANGES
                                  /\ BLACKLIST' = BLACKLIST ]_vars

\* C10 happens: a blacklisted account that holds checkpoints had a lock
\* operation rejected
C10_Witness ==
    /\ call.fn \in LockOperations
    /\ \E user \in BLACKLIST :
          /\ IsErr(call.out, <<"AddressBlacklisted", user>>)
          /\ call.in[2] = user
          /\ \E key \in DOMAIN HISTORY : key[1] = user

=============================================================================
